---- MODULE Spec2Model ----
(***************************************************************************)
(* Model of the cloakerguard edge router (src/unnamed/part_000, lines      *)
(* 1-287): host extraction, the policy cache and resolver, the user-agent  *)
(* classifier, the routing decision and the header rewriting around the    *)
(* delegated proxy.                                                        *)
(*                                                                         *)
(* JavaScript strings that the code inspects character by character        *)
(* (header values, origin URLs, user agents, regular expressions) are      *)
(* sequences of one-character strings.  undefined and "" are both the      *)
(* empty sequence: every place the code reads them goes through `||`, `?.` *)
(* or a truthiness test, which do not tell them apart.                     *)
(***************************************************************************)
EXTENDS Integers, Sequences, FiniteSets, TLC

(* ------------------------------------------------------------------ *)
(* Characters and strings                                              *)
(* ------------------------------------------------------------------ *)

UpperAlpha ==
    <<"A","B","C","D","E","F","G","H","I","J","K","L","M","N","O","P","Q","R","S","T","U","V","W","X","Y","Z">>
LowerAlpha ==
    <<"a","b","c","d","e","f","g","h","i","j","k","l","m","n","o","p","q","r","s","t","u","v","w","x","y","z">>
Digits ==
    {"0","1","2","3","4","5","6","7","8","9"}

EMPTY == << >>

toLowerChar(c) ==
    IF \E i \in 1..26 : UpperAlpha[i] = c
    THEN LowerAlpha[CHOOSE i \in 1..26 : UpperAlpha[i] = c]
    ELSE c

\* String.prototype.toLowerCase
toLowerCase(s) == [i \in 1..Len(s) |-> toLowerChar(s[i])]

RECURSIVE trimStart(_)
trimStart(s) ==
    IF s # EMPTY /\ Head(s) = " " THEN trimStart(Tail(s)) ELSE s

RECURSIVE trimEnd(_)
trimEnd(s) ==
    IF s # EMPTY /\ s[Len(s)] = " " THEN trimEnd(SubSeq(s, 1, Len(s) - 1)) ELSE s

\* String.prototype.trim
trim(s) == trimEnd(trimStart(s))

\* Index of the first occurrence of character c in s, 0 when there is none.
indexOf(s, c) ==
    IF \E i \in 1..Len(s) : s[i] = c
    THEN CHOOSE i \in 1..Len(s) : s[i] = c /\ \A j \in 1..(i - 1) : s[j] # c
    ELSE 0

\* s.split(c)[0]
splitFirst(s, c) ==
    IF indexOf(s, c) = 0 THEN s ELSE SubSeq(s, 1, indexOf(s, c) - 1)

\* s.split(c) as a sequence of strings
RECURSIVE split(_, _)
split(s, c) ==
    IF indexOf(s, c) = 0 THEN << s >>
    ELSE << SubSeq(s, 1, indexOf(s, c) - 1) >> \o split(SubSeq(s, indexOf(s, c) + 1, Len(s)), c)

\* s.includes(t)
includes(s, t) ==
    \E i \in 0..(Len(s) - Len(t)) : SubSeq(s, i + 1, i + Len(t)) = t

\* s.replace(/:\d+$/, ""): a colon followed by one or more digits up to the end.
stripPort(s) ==
    IF \E i \in 1..(Len(s) - 1) : s[i] = ":" /\ \A j \in (i + 1)..Len(s) : s[j] \in Digits
    THEN SubSeq(s, 1, (CHOOSE i \in 1..(Len(s) - 1) :
                          s[i] = ":" /\ \A j \in (i + 1)..Len(s) : s[j] \in Digits) - 1)
    ELSE s

(* ------------------------------------------------------------------ *)
(* Host extractor                                                      *)
(* ------------------------------------------------------------------ *)

\* headers: [xoh, xfh, host], the x-original-host, x-forwarded-host and host
\* header values (EMPTY when the header is absent).
getClientHostMutant(headers) ==
    LET fwd == trim(splitFirst(headers.xfh, ","))
        h   == IF fwd # EMPTY THEN fwd ELSE headers.host
    IN  stripPort(toLowerCase(trim(h)))

getClientHost(headers) ==
    LET fwd == trim(splitFirst(headers.xfh, ","))
        xoh == IF headers.xoh # EMPTY THEN headers.xoh
               ELSE IF fwd # EMPTY THEN fwd
               ELSE headers.host
    IN  stripPort(trim(toLowerCase(xoh)))

(* ------------------------------------------------------------------ *)
(* WHATWG URL parsing, as far as the router reads it: new URL(s) either *)
(* throws or yields protocol and host.  Covered grammar:                *)
(*   scheme ":" ["//"] hostname [":" port] ["/" path]                   *)
(* for the special schemes http, https and ftp; any other input with a  *)
(* scheme parses with an empty host; input without a scheme throws.     *)
(* ------------------------------------------------------------------ *)

S_HTTP ==
    <<"h","t","t","p">>
S_HTTPS ==
    <<"h","t","t","p","s">>
S_FTP ==
    <<"f","t","p">>
P80 ==
    <<"8","0">>
P443 ==
    <<"4","4","3">>
P21 ==
    <<"2","1">>

isAlpha(c) == toLowerChar(c) \in {LowerAlpha[i] : i \in 1..26}

isSchemeChar(c) == isAlpha(c) \/ c \in Digits \/ c \in {"+", "-", "."}

urlScheme(s) == toLowerCase(splitFirst(s, ":"))

hasScheme(s) ==
    /\ indexOf(s, ":") > 1
    /\ isAlpha(s[1])
    /\ \A i \in 1..(indexOf(s, ":") - 1) : isSchemeChar(s[i])

isSpecial(scheme) == scheme \in {S_HTTP, S_HTTPS, S_FTP}

defaultPort(scheme) ==
    IF scheme = S_HTTP THEN P80
    ELSE IF scheme = S_HTTPS THEN P443
    ELSE IF scheme = S_FTP THEN P21
    ELSE EMPTY

RECURSIVE skipSlashes(_)
skipSlashes(s) ==
    IF s # EMPTY /\ Head(s) = "/" THEN skipSlashes(Tail(s)) ELSE s

\* The authority of a special-scheme URL: what follows the slashes, up to the path.
urlAuthority(s) ==
    splitFirst(skipSlashes(SubSeq(s, indexOf(s, ":") + 1, Len(s))), "/")

urlHostname(s) == toLowerCase(splitFirst(urlAuthority(s), ":"))

urlPort(s) ==
    IF indexOf(urlAuthority(s), ":") = 0 THEN EMPTY
    ELSE SubSeq(urlAuthority(s), indexOf(urlAuthority(s), ":") + 1, Len(urlAuthority(s)))

\* new URL(raw) throws a TypeError
urlThrows(raw) ==
    LET s == trim(raw)
    IN  \/ ~hasScheme(s)
        \/ /\ isSpecial(urlScheme(s))
           /\ \/ urlHostname(s) = EMPTY
              \/ \E i \in 1..Len(urlPort(s)) : urlPort(s)[i] \notin Digits

\* new URL(raw).protocol
urlProtocol(raw) == urlScheme(trim(raw)) \o <<":">>

\* new URL(raw).host: the lower-cased hostname, with the port unless it is the
\* scheme's default.
urlHost(raw) ==
    LET s == trim(raw)
    IN  IF ~isSpecial(urlScheme(s)) THEN EMPTY
        ELSE IF urlPort(s) = EMPTY \/ urlPort(s) = defaultPort(urlScheme(s))
             THEN urlHostname(s)
             ELSE urlHostname(s) \o <<":">> \o urlPort(s)

\* /^https?:$/.test(protocol)
isHttpProtocol(protocol) ==
    protocol \in {S_HTTP \o <<":">>, S_HTTPS \o <<":">>}

\* What the router reads of new URL(raw)
parseURL(raw) ==
    [throws   |-> urlThrows(raw),
     protocol |-> IF urlThrows(raw) THEN EMPTY ELSE urlProtocol(raw),
     host     |-> IF urlThrows(raw) THEN EMPTY ELSE urlHost(raw)]

(* ------------------------------------------------------------------ *)
(* Regular expressions, covered for the shape of the built-in pattern: *)
(* literal alternatives separated by "|", optionally grouped by        *)
(* parentheses, matched case-insensitively anywhere in the input;      *)
(* unbalanced parentheses are a syntax error, on which new RegExp      *)
(* throws.                                                             *)
(* ------------------------------------------------------------------ *)

RE_DEFAULT ==
    <<"(","b","o","t","|","c","r","a","w","l","e","r","|","s","p","i","d","e","r","|","f","a","c","e","b","o","o","k","e","x","t","e","r","n","a","l","h","i","t","|","h","e","a","d","l","e","s","s","c","h","r","o","m","e",")">>

RECURSIVE parensBalanced(_, _)
parensBalanced(s, depth) ==
    IF s = EMPTY THEN depth = 0
    ELSE IF Head(s) = "(" THEN parensBalanced(Tail(s), depth + 1)
    ELSE IF Head(s) = ")" THEN depth > 0 /\ parensBalanced(Tail(s), depth - 1)
    ELSE parensBalanced(Tail(s), depth)

\* new RegExp(pattern, "i") throws a SyntaxError
regExpThrows(pattern) == ~parensBalanced(pattern, 0)

withoutParens(s) == SelectSeq(s, LAMBDA c : c \notin {"(", ")"})

\* new RegExp(pattern, "i").test(ua)
regExpTest(pattern, ua) ==
    LET alts == split(withoutParens(toLowerCase(pattern)), "|")
    IN  \E k \in 1..Len(alts) : includes(toLowerCase(ua), alts[k])

(* ------------------------------------------------------------------ *)
(* Sample inputs                                                       *)
(* ------------------------------------------------------------------ *)

O_EXAMPLE ==
    <<"h","t","t","p","s",":","/","/","e","x","a","m","p","l","e",".","c","o","m">>
H_A ==
    <<"a",".","i","o">>
H_A_UP ==
    <<"A",".","I","O">>
H_A_PORT ==
    <<"A",".","i","o",":","8","0","8","0">>
H_B ==
    <<"b",".","i","o">>
XFH_LIST ==
    <<" ","b",".","i","o"," ",","," ","a",".","i","o">>
O_CDN ==
    <<"h","t","t","p","s",":","/","/","c","d","n",".","i","o">>
O_DECOY ==
    <<"h","t","t","p","s",":","/","/","d","e","c","o","y",".","i","o">>
O_LOOP_A ==
    <<"h","t","t","p",":","/","/","a",".","i","o">>
O_LOOP_A_UP ==
    <<"H","T","T","P",":","/","/","A",".","I","O",":","8","0","/","x">>
O_A_PORT ==
    <<"h","t","t","p",":","/","/","a",".","i","o",":","8","0","8","0">>
O_FTP ==
    <<"f","t","p",":","/","/","c","d","n",".","i","o">>
O_MALFORMED ==
    <<"n","o","t"," ","a"," ","u","r","l">>
O_FB ==
    <<"h","t","t","p","s",":","/","/","f","b",".","i","o">>
UA_GOOGLEBOT ==
    <<"G","o","o","g","l","e","b","o","t","/","2",".","1">>
UA_MOZILLA ==
    <<"M","o","z","i","l","l","a","/","5",".","0">>
UA_CURL ==
    <<"c","u","r","l","/","8">>
RE_CURL ==
    <<"c","u","r","l","|","w","g","e","t">>
RE_INVALID ==
    <<"(","c","u","r","l">>

S_NONE ==
    <<"n","o","n","e">>

\* process.env.DEFAULT_ORIGIN || "https://example.com"
defaultOriginMutant(envValue) == envValue
defaultOrigin(envValue) == IF envValue # EMPTY THEN envValue ELSE O_EXAMPLE

\* Values of process.env.DEFAULT_ORIGIN (EMPTY: unset)
EnvDefaultOrigins == {EMPTY, O_FB}

Origins == {EMPTY, O_CDN, O_DECOY, O_LOOP_A, O_LOOP_A_UP, O_A_PORT, O_FTP, O_MALFORMED}

Patterns == {EMPTY, RE_CURL, RE_INVALID}

UserAgents == {EMPTY, UA_GOOGLEBOT, UA_MOZILLA, UA_CURL}

\* A DomainCfg as the router reads it; rules.uaBlock is the field uaBlock.
\* kind "object" is a parsed policy, "null" a JSON body that parses to null,
\* "undefined" the unset _edgeCfg of a request or a cache miss.
Policy(w, b, u) ==
    [kind |-> "object", whiteOrigin |-> w, blackOrigin |-> b, uaBlock |-> u]

NoCfg ==
    [kind |-> "undefined", whiteOrigin |-> EMPTY, blackOrigin |-> EMPTY, uaBlock |-> EMPTY]

NullCfg ==
    [kind |-> "null", whiteOrigin |-> EMPTY, blackOrigin |-> EMPTY, uaBlock |-> EMPTY]

MalformedBody ==
    [kind |-> "malformed", whiteOrigin |-> EMPTY, blackOrigin |-> EMPTY, uaBlock |-> EMPTY]

\* JavaScript truthiness of a cfg value
truthy(cfg) == cfg.kind = "object"

\* The policies the routing engine is exercised on
RoutePolicies == {Policy(w, b, u) : w \in Origins, b \in Origins, u \in Patterns}

\* The requests the routing engine is exercised on
RouteRequests ==
    { [headers |-> [xoh |-> EMPTY, xfh |-> EMPTY, host |-> H_A], secure |-> TRUE],
      [headers |-> [xoh |-> EMPTY, xfh |-> EMPTY, host |-> H_A_PORT], secure |-> FALSE],
      [headers |-> [xoh |-> EMPTY, xfh |-> XFH_LIST, host |-> H_A], secure |-> TRUE],
      [headers |-> [xoh |-> H_A_UP, xfh |-> XFH_LIST, host |-> H_B], secure |-> FALSE],
      [headers |-> [xoh |-> EMPTY, xfh |-> EMPTY, host |-> EMPTY], secure |-> FALSE] }

\* Header values the host extractor is exercised on
H_BLANK ==
    <<" ">>
H_TWO_PORTS ==
    <<"a",".","i","o",":","8","0",":","8","0">>
H_SPACE_PORT ==
    <<"a",".","i","o"," ",":","8","0">>
XFH_EMPTY_FIRST ==
    <<" ",","," ","a",".","i","o">>

HostHeaders ==
    [xoh : {EMPTY, H_A_PORT, H_BLANK, H_TWO_PORTS},
     xfh : {EMPTY, XFH_LIST, XFH_EMPTY_FIRST},
     host : {EMPTY, H_B, H_A_PORT, H_SPACE_PORT}]

\* The requests and policy-API answers the whole pipeline is exercised on
PipeRequests ==
    { [headers |-> [xoh |-> EMPTY, xfh |-> EMPTY, host |-> H_A], ua |-> UA_MOZILLA, secure |-> TRUE],
      [headers |-> [xoh |-> EMPTY, xfh |-> EMPTY, host |-> H_A_PORT], ua |-> UA_GOOGLEBOT, secure |-> FALSE],
      [headers |-> [xoh |-> EMPTY, xfh |-> XFH_LIST, host |-> H_A], ua |-> UA_GOOGLEBOT, secure |-> TRUE],
      [headers |-> [xoh |-> EMPTY, xfh |-> EMPTY, host |-> EMPTY], ua |-> UA_MOZILLA, secure |-> FALSE] }

PipePolicies ==
    { Policy(O_CDN, O_DECOY, EMPTY), Policy(O_LOOP_A, EMPTY, EMPTY),
      Policy(O_CDN, O_DECOY, RE_INVALID) }

\* What the policy API can answer to one lookup: status 0 is a failed fetch
\* (the promise rejects); a 2xx answer carries a body.
ApiAnswers ==
    { [status |-> 0, body |-> NoCfg], [status |-> 404, body |-> NoCfg],
      [status |-> 500, body |-> NoCfg], [status |-> 200, body |-> MalformedBody],
      [status |-> 200, body |-> NullCfg] }
    \cup { [status |-> 200, body |-> p] : p \in PipePolicies }

(* ------------------------------------------------------------------ *)
(* The string functions tabulated over the sample inputs               *)
(* ------------------------------------------------------------------ *)

AllHeaders == { q.headers : q \in RouteRequests \cup PipeRequests } \cup HostHeaders

AllTargets == Origins \cup { defaultOrigin(e) : e \in EnvDefaultOrigins } \cup EnvDefaultOrigins

AllPatterns == (Patterns \ {EMPTY}) \cup {RE_DEFAULT}

ClientHost == [h \in AllHeaders |-> getClientHost(h)]

URL == [o \in AllTargets |-> parseURL(o)]

RegExpOf == [p \in AllPatterns |->
               [throws |-> regExpThrows(p),
                test   |-> [u \in UserAgents |-> IF regExpThrows(p) THEN FALSE
                                                  ELSE regExpTest(p, u)]]]

(* ------------------------------------------------------------------ *)
(* Client classifier                                                   *)
(* ------------------------------------------------------------------ *)

\* The pattern isWhite compiles: the policy's rules.uaBlock when truthy, else
\* the built-in one.
blockPattern(cfg) == IF cfg.uaBlock # EMPTY THEN cfg.uaBlock ELSE RE_DEFAULT

\* new RegExp(cfg.rules.uaBlock, "i") throws in isWhite
isWhiteThrows(cfg) == RegExpOf[blockPattern(cfg)].throws

\* isWhite: TRUE when the user agent matches the block pattern.
isWhiteMutant(ua, cfg) == ~RegExpOf[blockPattern(cfg)].test[ua]
isWhite(ua, cfg) == RegExpOf[blockPattern(cfg)].test[ua]

(* ------------------------------------------------------------------ *)
(* Routing engine: mainProxyOptions.router                             *)
(* ------------------------------------------------------------------ *)

\* The candidate target: the origin field the classification selects.
candidateMutant(white, cfg) == IF white THEN cfg.blackOrigin ELSE cfg.whiteOrigin
candidate(white, cfg) == IF white THEN cfg.whiteOrigin ELSE cfg.blackOrigin

\* The scheme check of the router throws "bad scheme"
badSchemeMutant(target) == FALSE
badScheme(target) == ~isHttpProtocol(URL[target].protocol)

\* The loop check of the router
isLoopMutant(target, clientHost) == FALSE
isLoop(target, clientHost) == toLowerCase(URL[target].host) = clientHost

\* The try block of the router throws (and the catch falls through)
routerCatches(target) == URL[target].throws \/ badScheme(target)

\* r._edgeHost || getClientHost(r)
clientHostOf(edgeHost, headers) ==
    IF edgeHost # EMPTY THEN edgeHost ELSE ClientHost[headers]

\* What one call of router leaves behind: the returned target (ret), the
\* request's _edgeRoute and _edgeTarget, and whether the call threw (the
\* only throw that escapes is new RegExp's, before any field is written).
router(edgeHost, headers, ua, cfg, DEFAULT) ==
    LET clientHost == clientHostOf(edgeHost, headers)
    IN  IF ~truthy(cfg)
        THEN [threw |-> FALSE, edgeRoute |-> "fallback", edgeTarget |-> DEFAULT, ret |-> DEFAULT]
        ELSE IF isWhiteThrows(cfg)
        THEN [threw |-> TRUE, edgeRoute |-> "", edgeTarget |-> EMPTY, ret |-> EMPTY]
        ELSE
          LET white  == isWhite(ua, cfg)
              target == candidate(white, cfg)
          IN  IF target # EMPTY /\ ~routerCatches(target)
              THEN IF isLoop(target, clientHost)
                   THEN [threw |-> FALSE, edgeRoute |-> "loop-fallback",
                         edgeTarget |-> DEFAULT, ret |-> DEFAULT]
                   ELSE [threw |-> FALSE,
                         edgeRoute |-> IF white THEN "white" ELSE "black",
                         edgeTarget |-> target, ret |-> target]
              ELSE [threw |-> FALSE, edgeRoute |-> "no-target-fallback",
                    edgeTarget |-> DEFAULT, ret |-> DEFAULT]

(* ------------------------------------------------------------------ *)
(* Bounds                                                              *)
(* ------------------------------------------------------------------ *)

\* Number of requests the pipeline handles
NReq == 2

\* The clock runs from 0 to MaxTime
MaxTime == 2

\* CACHE_TTL, in clock ticks (30 s by default in the source)
CACHE_TTL == 1

\* The cache's max option, scaled down (5000 in the source)
CacheMax == 2

Reqs == 1..NReq

(* ------------------------------------------------------------------ *)
(* State                                                               *)
(* ------------------------------------------------------------------ *)

VARIABLES
    DEFAULT_ORIGIN,  \* the configured default origin
    cache,           \* the LRU cache: entries, most recently used first
    now,             \* the clock
    reqs             \* the requests, by id

vars == << DEFAULT_ORIGIN, cache, now, reqs >>

NoEntry == [key |-> EMPTY, val |-> NoCfg, start |-> 0, writer |-> 0, used |-> 0]

NoAnswer == [status |-> -1, body |-> NoCfg]

NoHeaders == [xoh |-> EMPTY, xfh |-> EMPTY, host |-> EMPTY]

\* A request that has not arrived.  pc: idle, fetching (awaiting the policy
\* API), router (passed on by next()), sent (the outbound request was
\* written), done (a response was written).
\* fetched, key, t0, seen, seenAge, answer and src record what resolveHost
\* did: whether it called the API, its cache key, the time of its cache
\* lookup, the entry the cache held for the key at lookup with its age, the
\* API's answer, and the request whose resolution stored the value it
\* returned.  hostDetectado is the host the debug route reports; closed
\* tells that the client has disconnected; evicted holds the entries the
\* cache dropped when resolveHost stored the answer.
IdleReq ==
    [pc |-> "idle", headers |-> NoHeaders, ua |-> EMPTY, secure |-> FALSE,
     edgeHost |-> EMPTY, edgeCfg |-> NoCfg, edgeRoute |-> "", edgeTarget |-> EMPTY,
     ret |-> EMPTY, status |-> 0, body |-> "", answer |-> NoAnswer, t0 |-> 0,
     fetched |-> FALSE, key |-> EMPTY, seen |-> NoEntry, seenAge |-> 0, src |-> 0,
     outHost |-> EMPTY, outXoh |-> EMPTY, outXfh |-> EMPTY, outProto |-> "",
     resRoute |-> "", resTarget |-> EMPTY, resHost |-> EMPTY, hostDetectado |-> EMPTY,
     closed |-> FALSE, evicted |-> << >>]

(* ------------------------------------------------------------------ *)
(* Policy cache: new LRUCache({ max, ttl: CACHE_TTL })                  *)
(* ------------------------------------------------------------------ *)

hasEntry(c, key) == \E i \in 1..Len(c) : c[i].key = key

entryOf(c, key) ==
    IF hasEntry(c, key) THEN c[CHOOSE i \in 1..Len(c) : c[i].key = key] ELSE NoEntry

without(c, key) == SelectSeq(c, LAMBDA e : e.key # key)

\* An entry is stale once more than ttl has passed since it was set.
isStaleEarlyMutant(e, t) == t - e.start >= CACHE_TTL
isStaleMutant(e, t) == FALSE
isStale(e, t) == t - e.start > CACHE_TTL

\* cache.get(key): the value of a fresh entry, undefined otherwise
cacheGetMutant(c, key, t) == NoCfg
cacheGet(c, key, t) ==
    IF hasEntry(c, key) /\ ~isStale(entryOf(c, key), t) THEN entryOf(c, key).val ELSE NoCfg

\* The cache after cache.get(key): a fresh entry becomes the most recently
\* used one, a stale entry is deleted.
cacheAfterGetMutant(c, key, t) ==
    IF ~hasEntry(c, key) THEN c
    ELSE IF isStale(entryOf(c, key), t) THEN without(c, key)
    ELSE [i \in 1..Len(c) |-> IF c[i].key = key THEN [c[i] EXCEPT !.used = t] ELSE c[i]]

cacheAfterGet(c, key, t) ==
    IF ~hasEntry(c, key) THEN c
    ELSE IF isStale(entryOf(c, key), t) THEN without(c, key)
    ELSE << [entryOf(c, key) EXCEPT !.used = t] >> \o without(c, key)

\* The cache after cache.set(key, val): the entry is (re)placed as the most
\* recently used one with a new start time; beyond max entries the least
\* recently used one is evicted.
cacheSetMutant(c, key, val, t, writer) ==
    IF hasEntry(c, key) /\ ~isStale(entryOf(c, key), t) THEN c
    ELSE LET placed == << [key |-> key, val |-> val, start |-> t, writer |-> writer,
                             used |-> t] >> \o without(c, key)
         IN  IF Len(placed) > CacheMax THEN SubSeq(placed, 1, CacheMax) ELSE placed

cacheSet(c, key, val, t, writer) ==
    LET placed == << [key |-> key, val |-> val, start |-> t, writer |-> writer,
                        used |-> t] >> \o without(c, key)
    IN  IF Len(placed) > CacheMax THEN SubSeq(placed, 1, CacheMax) ELSE placed

\* The entries of c that c2 no longer holds a key for
dropped(c, c2) == SelectSeq(c, LAMBDA e : ~hasEntry(c2, e.key))

(* ------------------------------------------------------------------ *)
(* The request pipeline                                                *)
(* ------------------------------------------------------------------ *)

\* Response.ok
ok(status) == status \in 200..299

\* The pre-check middleware up to the await of fetch in resolveHost: the
\* client host, the cache lookup and, on a hit, the rest of the middleware
\* (the policy and the host are attached, next() is called).
PreCheck(r) ==
    /\ reqs[r].pc = "idle"
    /\ \E in \in PipeRequests :
         LET host == ClientHost[in.headers]
             key  == toLowerCase(host)
             hit  == cacheGet(cache, key, now)
         IN  /\ reqs' = [reqs EXCEPT ![r] =
                  [@ EXCEPT !.headers = in.headers, !.ua = in.ua, !.secure = in.secure,
                            !.key = key, !.t0 = now,
                            !.seen = entryOf(cache, key),
                            !.seenAge = now - entryOf(cache, key).start,
                            !.pc = IF truthy(hit) THEN "router" ELSE "fetching",
                            !.fetched = ~truthy(hit),
                            !.src = IF truthy(hit) THEN entryOf(cache, key).writer ELSE 0,
                            !.edgeHost = IF truthy(hit) THEN host ELSE EMPTY,
                            !.edgeCfg = IF truthy(hit) THEN hit ELSE NoCfg]]
             /\ cache' = cacheAfterGet(cache, key, now)
    /\ UNCHANGED << DEFAULT_ORIGIN, now >>

\* resolveHost throws on this answer: the fetch failed, the status is
\* neither 404 nor 2xx, or the body is not JSON.
resolveThrowsMutant(a) == a.status = 0 \/ ~ok(a.status) \/ a.body.kind = "malformed"
resolveThrows(a) ==
    a.status # 404 /\ (a.status = 0 \/ ~ok(a.status) \/ a.body.kind = "malformed")

\* resolveHost stores this answer's body in the cache
resolveStoresMutant(a) == a.status # 0
resolveStores(a) == a.status # 404 /\ ~resolveThrows(a)

\* The pre-check's response when resolveHost yields no policy: 502 from the
\* catch block, 404 for null.
answerStatusMutant(a) == 404
answerStatus(a) == IF resolveThrows(a) THEN 502 ELSE 404

\* The policy API answered (or the fetch failed): the rest of resolveHost
\* and of the pre-check middleware.
FetchReturn(r) ==
    /\ reqs[r].pc = "fetching"
    /\ \E a \in ApiAnswers :
         /\ cache' = IF resolveStores(a)
                     THEN cacheSet(cache, reqs[r].key, a.body, now, r)
                     ELSE cache
         /\ reqs' = [reqs EXCEPT ![r] =
              IF resolveStores(a) /\ truthy(a.body)
              THEN [@ EXCEPT !.pc = "router", !.src = r, !.answer = a,
                             !.edgeHost = ClientHost[reqs[r].headers],
                             !.edgeCfg = a.body,
                             !.evicted = dropped(cache, cache')]
              ELSE [@ EXCEPT !.pc = "done", !.answer = a,
                             !.status = answerStatus(a),
                             !.body = IF answerStatus(a) = 404
                                      THEN "Domain not configured"
                                      ELSE "Edge resolve error",
                             !.evicted = dropped(cache, cache')]]
    /\ UNCHANGED << DEFAULT_ORIGIN, now >>

\* The Host header on.proxyReq sets: the host of _edgeTarget || DEFAULT_ORIGIN
\* when that parses to a non-empty host.
destHostOf(edgeTarget, DEFAULT) ==
    LET target == IF edgeTarget # EMPTY THEN edgeTarget ELSE DEFAULT
    IN  IF URL[target].throws THEN EMPTY ELSE URL[target].host

\* The X-Forwarded-Proto header on.proxyReq sets
forwardedProtoMutant(secure) == "https"
forwardedProto(secure) == IF secure THEN "https" ELSE "http"

\* The proxy middleware: it calls router and, with the target router
\* returned, creates the outbound request, whose headers on.proxyReq sets.
\* An exception escaping router is passed to next(err), which express
\* answers with 500.
Proxy(r) ==
    /\ reqs[r].pc = "router"
    /\ LET d == router(reqs[r].edgeHost, reqs[r].headers, reqs[r].ua, reqs[r].edgeCfg,
                       DEFAULT_ORIGIN)
           clientHost == clientHostOf(reqs[r].edgeHost, reqs[r].headers)
       IN  reqs' = [reqs EXCEPT ![r] =
             IF d.threw
             THEN [@ EXCEPT !.pc = "done", !.status = 500, !.body = "Internal Server Error"]
             ELSE [@ EXCEPT !.pc = "sent", !.edgeRoute = d.edgeRoute,
                            !.edgeTarget = d.edgeTarget, !.ret = d.ret,
                            !.outHost = IF destHostOf(d.edgeTarget, DEFAULT_ORIGIN) # EMPTY
                                        THEN destHostOf(d.edgeTarget, DEFAULT_ORIGIN)
                                        ELSE URL[d.ret].host,
                            !.outXoh = clientHost, !.outXfh = clientHost,
                            !.outProto = forwardedProto(reqs[r].secure)]]
    /\ UNCHANGED << DEFAULT_ORIGIN, cache, now >>

\* on.proxyRes: the origin answered; the diagnostic headers of the response
ProxyResMutant(r) ==
    /\ reqs[r].pc = "sent"
    /\ reqs' = [reqs EXCEPT ![r] =
         [@ EXCEPT !.pc = "done", !.status = 200, !.body = "origin",
                   !.resRoute = IF reqs[r].edgeRoute \in {"white", "black"}
                                THEN reqs[r].edgeRoute ELSE "unknown",
                   !.resTarget = IF reqs[r].edgeRoute \in {"white", "black"}
                                 THEN reqs[r].edgeTarget ELSE S_NONE,
                   !.resHost = clientHostOf(reqs[r].edgeHost, reqs[r].headers)]]
    /\ UNCHANGED << DEFAULT_ORIGIN, cache, now >>

ProxyRes(r) ==
    /\ reqs[r].pc = "sent"
    /\ reqs' = [reqs EXCEPT ![r] =
         [@ EXCEPT !.pc = "done", !.status = 200, !.body = "origin",
                   !.resRoute = IF reqs[r].edgeRoute # "" THEN reqs[r].edgeRoute ELSE "unknown",
                   !.resTarget = IF reqs[r].edgeTarget # EMPTY THEN reqs[r].edgeTarget
                                 ELSE S_NONE,
                   !.resHost = clientHostOf(reqs[r].edgeHost, reqs[r].headers)]]
    /\ UNCHANGED << DEFAULT_ORIGIN, cache, now >>

\* on.error: the delegated transport failed to reach the origin
ProxyError(r) ==
    /\ reqs[r].pc = "sent"
    /\ reqs' = [reqs EXCEPT ![r] =
         [@ EXCEPT !.pc = "done", !.status = 502, !.body = "Edge upstream error"]]
    /\ UNCHANGED << DEFAULT_ORIGIN, cache, now >>

\* The debug route /__echo, registered ahead of the pre-check: it answers
\* with the client host it detects.
Echo(r) ==
    /\ reqs[r].pc = "idle"
    /\ \E h \in HostHeaders :
         reqs' = [reqs EXCEPT ![r] =
           [@ EXCEPT !.headers = h, !.pc = "done", !.status = 200, !.body = "echo",
                     !.hostDetectado = ClientHost[h]]]
    /\ UNCHANGED << DEFAULT_ORIGIN, cache, now >>

\* The client of r disconnects while the policy lookup is pending.  No
\* handler is registered for it and the fetch has no abort signal: only the
\* connection's state changes.
Disconnect(r) ==
    /\ reqs[r].pc = "fetching" /\ ~reqs[r].closed
    /\ reqs' = [reqs EXCEPT ![r] = [@ EXCEPT !.closed = TRUE]]
    /\ UNCHANGED << DEFAULT_ORIGIN, cache, now >>

\* The exchange of r is over and its request object is discarded: the next
\* request takes its place.
NextRequest(r) ==
    /\ reqs[r].pc = "done"
    /\ reqs' = [reqs EXCEPT ![r] = IdleReq]
    /\ UNCHANGED << DEFAULT_ORIGIN, cache, now >>

\* Time passes
Tick ==
    /\ now < MaxTime
    /\ now' = now + 1
    /\ UNCHANGED << DEFAULT_ORIGIN, cache, reqs >>

Init ==
    /\ DEFAULT_ORIGIN \in { defaultOrigin(e) : e \in EnvDefaultOrigins }
    /\ cache = << >>
    /\ now = 0
    /\ reqs = [r \in Reqs |-> IdleReq]

Next ==
    \/ \E r \in Reqs : PreCheck(r)
    \/ \E r \in Reqs : FetchReturn(r)
    \/ \E r \in Reqs : Proxy(r)
    \/ \E r \in Reqs : ProxyRes(r)
    \/ \E r \in Reqs : ProxyError(r)
    \/ Tick

\* The whole pipeline: requests arrive, resolve, route and are proxied.
Spec == Init /\ [][Next]_vars

\* The routing engine on its own: request 1 stands at the router with any
\* headers, user agent and attached policy, or with none attached.
InitRoute ==
    /\ DEFAULT_ORIGIN \in { defaultOrigin(e) : e \in EnvDefaultOrigins }
    /\ cache = << >>
    /\ now = 0
    /\ \E q \in RouteRequests, u \in UserAgents, c \in RoutePolicies \cup {NoCfg} :
         reqs = [r \in Reqs |->
                   IF r = 1
                   THEN [IdleReq EXCEPT !.pc = "router", !.headers = q.headers, !.ua = u,
                                        !.secure = q.secure,
                                        !.edgeHost = IF truthy(c) THEN ClientHost[q.headers]
                                                     ELSE EMPTY,
                                        !.edgeCfg = c]
                   ELSE IdleReq]

NextRoute ==
    \/ \E r \in Reqs : Proxy(r)
    \/ \E r \in Reqs : ProxyRes(r)
    \/ \E r \in Reqs : ProxyError(r)

SpecRoute == InitRoute /\ [][NextRoute]_vars

\* The pipeline with the progress the code guarantees.  A request handed to
\* the proxy middleware is routed at once; an outbound request ends either
\* with the origin's response or, after proxyTimeout (25 s), with on.error.
\* The fetch of resolveHost is given no timeout and no abort signal: nothing
\* in the code makes a pending lookup settle, so FetchReturn is not fair.
SpecLive ==
    /\ Init /\ [][Next]_vars
    /\ \A r \in Reqs : WF_vars(Proxy(r))
    /\ \A r \in Reqs : WF_vars(ProxyRes(r) \/ ProxyError(r))

\* The pipeline with clients that may disconnect during the lookup
NextCancel ==
    \/ Next
    \/ \E r \in Reqs : Disconnect(r)

SpecCancel == Init /\ [][NextCancel]_vars

\* The cache under a sequence of requests handled one after the other
NextSequential ==
    \/ PreCheck(1)
    \/ FetchReturn(1)
    \/ Proxy(1)
    \/ ProxyRes(1)
    \/ ProxyError(1)
    \/ NextRequest(1)
    \/ Tick

SpecSequential == Init /\ [][NextSequential]_vars

\* The host extractor on its own: requests to the debug route with any
\* combination of host-carrying headers.
NextHost == \E r \in Reqs : Echo(r)

SpecHost == Init /\ [][NextHost]_vars

(* ------------------------------------------------------------------ *)
(* Properties of the routing decision (under SpecRoute)                *)
(* ------------------------------------------------------------------ *)

\* The router has run for request r and left a decision
Routed(r) == reqs[r].edgeRoute # ""

\* The user agent of r matches the block pattern of its policy
MatchesBlock(r) == RegExpOf[blockPattern(reqs[r].edgeCfg)].test[reqs[r].ua]

\* The client host the router compares with
ClientHostAt(r) == clientHostOf(reqs[r].edgeHost, reqs[r].headers)

\* o parses as an absolute http(s) URL
HttpOrigin(o) == o # EMPTY /\ ~URL[o].throws /\ isHttpProtocol(URL[o].protocol)

\* o parses as an http(s) URL whose host is the client host of r
LoopsTo(o, r) == HttpOrigin(o) /\ toLowerCase(URL[o].host) = ClientHostAt(r)

\* Both origins of r's policy are usable: http(s) and not the client host
BothUsable(r) ==
    /\ truthy(reqs[r].edgeCfg)
    /\ HttpOrigin(reqs[r].edgeCfg.whiteOrigin) /\ ~LoopsTo(reqs[r].edgeCfg.whiteOrigin, r)
    /\ HttpOrigin(reqs[r].edgeCfg.blackOrigin) /\ ~LoopsTo(reqs[r].edgeCfg.blackOrigin, r)

\* The origin field the code selects: whiteOrigin on a match, else blackOrigin
Selected(r) ==
    IF MatchesBlock(r) THEN reqs[r].edgeCfg.whiteOrigin ELSE reqs[r].edgeCfg.blackOrigin

RoutedTo(r, label, target) ==
    reqs[r].edgeRoute = label /\ reqs[r].ret = target /\ reqs[r].edgeTarget = target

C4_TargetValidated ==
    \A r \in Reqs : Routed(r) =>
        /\ \/ reqs[r].ret = DEFAULT_ORIGIN
           \/ /\ truthy(reqs[r].edgeCfg)
              /\ reqs[r].ret \in {reqs[r].edgeCfg.whiteOrigin, reqs[r].edgeCfg.blackOrigin}
              /\ HttpOrigin(reqs[r].ret)
              /\ ~LoopsTo(reqs[r].ret, r)
        /\ (truthy(reqs[r].edgeCfg) /\ Selected(r) # EMPTY /\ ~HttpOrigin(Selected(r))) =>
              RoutedTo(r, "no-target-fallback", DEFAULT_ORIGIN)

\* An ftp:// origin was selected and the request went to the default origin.
C4_Witness ==
    \E r \in Reqs :
        /\ Routed(r) /\ truthy(reqs[r].edgeCfg)
        /\ Selected(r) = O_FTP
        /\ RoutedTo(r, "no-target-fallback", DEFAULT_ORIGIN)

\* The selected origin loops back to the client host: `loop-fallback` to the
\* default origin, the looping origin not returned.
LoopFallsBack(r) ==
    (Routed(r) /\ truthy(reqs[r].edgeCfg) /\ LoopsTo(Selected(r), r)) =>
        RoutedTo(r, "loop-fallback", DEFAULT_ORIGIN) /\ reqs[r].ret # Selected(r)

EmptyFallsBack(r) ==
    (Routed(r) /\ truthy(reqs[r].edgeCfg) /\ Selected(r) = EMPTY) =>
        RoutedTo(r, "no-target-fallback", DEFAULT_ORIGIN)

C7_FallbackNeverEmpty ==
    \A r \in Reqs : (Routed(r) /\ ~truthy(reqs[r].edgeCfg)) =>
        /\ RoutedTo(r, "fallback", DEFAULT_ORIGIN)
        /\ reqs[r].ret # EMPTY

\* A request without policy was routed while DEFAULT_ORIGIN was unset in the
\* environment.
C7_Witness ==
    \E r \in Reqs :
        /\ Routed(r) /\ ~truthy(reqs[r].edgeCfg)
        /\ reqs[r].edgeRoute = "fallback"
        /\ reqs[r].ret = O_EXAMPLE

(* ------------------------------------------------------------------ *)
(* Properties of the pipeline (under Spec)                             *)
(* ------------------------------------------------------------------ *)

\* The policy API's answer to r's lookup is a resolver error: the fetch
\* failed, the status is neither 2xx nor 404, or the 2xx body is not JSON.
ResolverError(r) ==
    \/ reqs[r].answer.status = 0
    \/ reqs[r].answer.status \notin (200..299) \cup {404, -1}
    \/ reqs[r].answer.status \in 200..299 /\ reqs[r].answer.body.kind = "malformed"

\* The request ended at the pre-check: the router never ran for it and no
\* outbound request was made.
StoppedAtPreCheck(r) ==
    /\ reqs[r].pc = "done"
    /\ reqs[r].edgeRoute = "" /\ reqs[r].ret = EMPTY /\ reqs[r].edgeTarget = EMPTY
    /\ reqs[r].outHost = EMPTY /\ reqs[r].outXfh = EMPTY

\* C2: a resolver error is answered 502 at the pre-check, never 404, and
\* the request is neither routed nor forwarded.
C2_ResolverErrorIs502 ==
    \A r \in Reqs : ResolverError(r) =>
        reqs[r].status = 502 /\ StoppedAtPreCheck(r)

\* A lookup answered 500 and one answered by an unparsable body both ended 502.
C2_Witness ==
    \E r1, r2 \in Reqs :
        /\ reqs[r1].answer.status = 500 /\ reqs[r1].status = 502
        /\ reqs[r2].answer.body.kind = "malformed" /\ reqs[r2].status = 502

\* C3: a hostname the policy API answers with 404 gets status 404 at the
\* pre-check; the request is neither routed nor forwarded.
C3_NotConfiguredIs404 ==
    \A r \in Reqs : reqs[r].answer.status = 404 =>
        reqs[r].status = 404 /\ StoppedAtPreCheck(r)

\* A lookup answered 404 ended with a 404 response.
C3_Witness ==
    \E r \in Reqs : reqs[r].answer.status = 404 /\ reqs[r].status = 404

\* resolveHost returned a policy to r
Resolved(r) == reqs[r].pc \in {"router", "sent", "done"} /\ truthy(reqs[r].edgeCfg)

\* C8 as stated: two resolutions of one hostname whose lookups are at most
\* CACHE_TTL apart return the identical policy, and not both call the API.
C8_AsStated ==
    \A r1, r2 \in Reqs :
        (/\ r1 # r2 /\ Resolved(r1) /\ Resolved(r2)
         /\ reqs[r1].key = reqs[r2].key
         /\ reqs[r1].t0 <= reqs[r2].t0 /\ reqs[r2].t0 - reqs[r1].t0 <= CACHE_TTL) =>
            /\ reqs[r1].edgeCfg = reqs[r2].edgeCfg
            /\ ~reqs[r2].fetched

\* C8, amended: a resolution that starts while the cache holds, within its
\* TTL, the policy an earlier resolution of the hostname stored returns the
\* identical policy that resolution returned and does not call the API.
C8_HitIsIdempotent ==
    \A r \in Reqs :
        (/\ reqs[r].pc # "idle"
         /\ reqs[r].seen.writer # 0 /\ truthy(reqs[r].seen.val)
         /\ reqs[r].seenAge <= CACHE_TTL) =>
            /\ reqs[reqs[r].seen.writer].key = reqs[r].key
            /\ Resolved(r)
            /\ reqs[r].edgeCfg = reqs[reqs[r].seen.writer].edgeCfg
            /\ ~reqs[r].fetched

\* A second resolution of a.io, one tick after the first stored its policy,
\* was served without an API call (the two arrived on a.io and A.io:8080).
C8_Witness ==
    \E r1, r2 \in Reqs :
        /\ r1 # r2 /\ Resolved(r1) /\ Resolved(r2)
        /\ reqs[r1].fetched /\ ~reqs[r2].fetched
        /\ reqs[r2].seen.writer = r1 /\ reqs[r2].seenAge = CACHE_TTL
        /\ reqs[r1].headers.host # reqs[r2].headers.host
        /\ reqs[r1].edgeCfg = reqs[r2].edgeCfg

\* C9: a lookup that finds a stored policy within its TTL returns it
\* unchanged without an API call; a lookup that finds it after the TTL has
\* elapsed does not return it and calls the API.
C9_CacheRoundTrip ==
    \A r \in Reqs :
        (reqs[r].pc # "idle" /\ reqs[r].seen.writer # 0 /\ truthy(reqs[r].seen.val)) =>
            IF reqs[r].seenAge <= CACHE_TTL
            THEN /\ reqs[r].edgeCfg = reqs[r].seen.val
                 /\ reqs[r].src = reqs[r].seen.writer
                 /\ ~reqs[r].fetched
            ELSE /\ reqs[r].fetched
                 /\ reqs[r].src \in {0, r}
                 /\ Resolved(r) => reqs[r].edgeCfg = reqs[r].answer.body

\* A lookup found an expired policy and resolved again to a different one.
C9_Witness ==
    \E r \in Reqs :
        /\ reqs[r].seen.writer # 0 /\ truthy(reqs[r].seen.val)
        /\ reqs[r].seenAge > CACHE_TTL
        /\ Resolved(r) /\ reqs[r].fetched
        /\ reqs[r].edgeCfg # reqs[r].seen.val

\* Every cache entry is the body of a 2xx answer to the resolution that
\* stored it, under that resolution's key; a resolution that found no
\* entry called the API.
C10_EntriesFrom2xx ==
    /\ \A i \in 1..Len(cache) :
         /\ cache[i].writer \in Reqs
         /\ reqs[cache[i].writer].answer.status \in 200..299
         /\ reqs[cache[i].writer].answer.body = cache[i].val
         /\ reqs[cache[i].writer].key = cache[i].key
    /\ \A r \in Reqs : (reqs[r].pc # "idle" /\ reqs[r].seen.writer = 0) => reqs[r].fetched

\* A step in which a lookup is answered with 404 or a resolver error
\* leaves the cache as it was.
C10_FailureKeepsCache ==
    \A r \in Reqs :
        (/\ reqs[r].pc = "fetching" /\ reqs'[r].pc # "fetching"
         /\ \/ reqs'[r].answer.status \notin 200..299
            \/ reqs'[r].answer.body.kind = "malformed") => cache' = cache

\* C10: the cache holds an entry only for a 2xx answer that was received
\* and stored, and a 404 or error answer leaves the cache unchanged.
C10_OnlySuccessCached == []C10_EntriesFrom2xx /\ [][C10_FailureKeepsCache]_vars

\* A lookup was answered 404 while the cache held another resolution's entry.
C10_Witness ==
    \E r \in Reqs :
        /\ reqs[r].answer.status = 404 /\ reqs[r].pc = "done"
        /\ Len(cache) > 0

(* ------------------------------------------------------------------ *)
(* Properties of the proxied exchange                                  *)
(* ------------------------------------------------------------------ *)

\* The five route labels the router assigns
RouteLabels == {"white", "black", "fallback", "loop-fallback", "no-target-fallback"}

\* The origin's response for r was relayed to the client
Relayed(r) == reqs[r].pc = "done" /\ reqs[r].body = "origin"

\* C11: every relayed response carries x-edge-host = the extracted client
\* host, x-edge-route = one of the five route labels (the one the router
\* assigned) and x-edge-target = the origin the request was forwarded to,
\* on the fallback routes too.
C11_DiagnosticHeaders ==
    \A r \in Reqs : Relayed(r) =>
        /\ reqs[r].resHost = getClientHost(reqs[r].headers)
        /\ reqs[r].resRoute \in RouteLabels
        /\ reqs[r].resRoute = reqs[r].edgeRoute
        /\ reqs[r].resTarget = reqs[r].ret
        /\ reqs[r].resTarget # S_NONE

\* A response relayed on the loop-fallback route carries that label and the
\* default origin it was fetched from.
C11_Witness ==
    \E r \in Reqs :
        /\ Relayed(r)
        /\ reqs[r].resRoute = "loop-fallback"
        /\ reqs[r].resTarget = DEFAULT_ORIGIN /\ reqs[r].ret = DEFAULT_ORIGIN
        /\ reqs[r].resHost = H_A

\* The request of r was forwarded to an origin
Forwarded(r) == reqs[r].pc \in {"sent", "done"} /\ reqs[r].ret # EMPTY

\* C12: on every forwarded request the outbound Host header is the host of
\* the target the router chose, and X-Original-Host, X-Forwarded-Host and
\* X-Forwarded-Proto are the extracted client host and the client's scheme.
C12_OutboundHeaders ==
    \A r \in Reqs : Forwarded(r) =>
        /\ ~urlThrows(reqs[r].ret)
        /\ reqs[r].outHost = urlHost(reqs[r].ret)
        /\ reqs[r].outXfh = getClientHost(reqs[r].headers)
        /\ reqs[r].outXoh = getClientHost(reqs[r].headers)
        /\ reqs[r].outProto = "https" <=> reqs[r].secure
        /\ reqs[r].outProto = "http" <=> ~reqs[r].secure

\* A plain-http request for a.io that arrived through the hop b.io was
\* forwarded to https://cdn.io with Host cdn.io, forwarded host a.io and
\* forwarded proto http.
C12_Witness ==
    \E r \in Reqs :
        /\ Forwarded(r)
        /\ reqs[r].headers.host = H_B /\ reqs[r].headers.xoh = H_A_UP
        /\ ~reqs[r].secure
        /\ reqs[r].ret = O_CDN
        /\ reqs[r].outHost = <<"c","d","n",".","i","o">>
        /\ reqs[r].outXfh = H_A
        /\ reqs[r].outProto = "http"

(* ------------------------------------------------------------------ *)
(* Properties of the host extractor (under SpecHost)                   *)
(* ------------------------------------------------------------------ *)

\* The debug route answered r
Echoed(r) == reqs[r].pc = "done" /\ reqs[r].body = "echo"

\* The header value the stated precedence selects: x-original-host when
\* present, else the first comma-separated value of x-forwarded-host when
\* it is not blank, else host, else the empty string.
Preferred(headers) ==
    IF headers.xoh # EMPTY THEN headers.xoh
    ELSE IF trim(SubSeq(headers.xfh, 1,
                        IF indexOf(headers.xfh, ",") = 0 THEN Len(headers.xfh)
                        ELSE indexOf(headers.xfh, ",") - 1)) # EMPTY
         THEN trim(SubSeq(headers.xfh, 1,
                          IF indexOf(headers.xfh, ",") = 0 THEN Len(headers.xfh)
                          ELSE indexOf(headers.xfh, ",") - 1))
    ELSE headers.host

\* s ends with a colon followed by digits only
HasPortSuffix(s) ==
    \E i \in 1..(Len(s) - 1) : s[i] = ":" /\ \A j \in (i + 1)..Len(s) : s[j] \in Digits

IsLowerCased(s) == \A i \in 1..Len(s) : \A k \in 1..26 : s[i] # UpperAlpha[k]

IsTrimmed(s) == s = EMPTY \/ (s[1] # " " /\ s[Len(s)] # " ")

\* s is a host name with an optional port and surrounding blanks: neither
\* a blank nor a colon inside the name
PlainHostPort(s) ==
    LET t == trim(s)
        n == IF indexOf(t, ":") = 0 THEN t ELSE SubSeq(t, 1, indexOf(t, ":") - 1)
        p == IF indexOf(t, ":") = 0 THEN EMPTY ELSE SubSeq(t, indexOf(t, ":") + 1, Len(t))
    IN  /\ \A i \in 1..Len(n) : n[i] # " "
        /\ \A i \in 1..Len(p) : p[i] \in Digits
        /\ indexOf(t, ":") # 0 => p # EMPTY

\* C13 as stated: the result comes from the header the precedence selects
\* and is always lower-cased, trimmed and without a trailing :port suffix.
C13_AsStated ==
    \A r \in Reqs : Echoed(r) =>
        /\ (Preferred(reqs[r].headers) = EMPTY) => reqs[r].hostDetectado = EMPTY
        /\ IsLowerCased(reqs[r].hostDetectado)
        /\ IsTrimmed(reqs[r].hostDetectado)
        /\ ~HasPortSuffix(reqs[r].hostDetectado)

\* C13, amended: the result is the header value the precedence selects,
\* lower-cased, trimmed and then shortened by one trailing :digits suffix;
\* it is always lower-cased, and for a value of the form host[:port] it is
\* the bare host, trimmed and without a port.
C13_ExtractHost ==
    \A r \in Reqs : Echoed(r) =>
        LET v   == Preferred(reqs[r].headers)
            low == trim([i \in 1..Len(v) |-> toLowerChar(v[i])])
            res == reqs[r].hostDetectado
        IN  /\ res = IF HasPortSuffix(low)
                     THEN SubSeq(low, 1, Len(low) - 1
                            - Cardinality({j \in 1..Len(low) :
                                 \A k \in j..Len(low) : low[k] \in Digits}))
                     ELSE low
            /\ IsLowerCased(res)
            /\ PlainHostPort(v) => (IsTrimmed(res) /\ ~HasPortSuffix(res)
                                    /\ indexOf(res, ":") = 0)

\* x-original-host A.io:8080 won over x-forwarded-host and host and was
\* reported as a.io; and a request with only the host header "a.io :80"
\* was reported with the blank left in place.
C13_Witness ==
    \E r1, r2 \in Reqs :
        /\ Echoed(r1) /\ reqs[r1].headers.xoh = H_A_PORT
        /\ reqs[r1].headers.xfh = XFH_LIST /\ reqs[r1].headers.host = H_B
        /\ reqs[r1].hostDetectado = H_A
        /\ Echoed(r2) /\ reqs[r2].headers.xoh = EMPTY /\ reqs[r2].headers.xfh = EMPTY
        /\ reqs[r2].headers.host = H_SPACE_PORT
        /\ reqs[r2].hostDetectado = <<"a",".","i","o"," ">>

(* ------------------------------------------------------------------ *)
(* Properties of the pipeline: the empty host                          *)
(* ------------------------------------------------------------------ *)

\* r arrived without any host-carrying header and has been answered or
\* forwarded
EmptyHostSettled(r) ==
    /\ reqs[r].pc \in {"sent", "done"} /\ reqs[r].body # "echo"
    /\ getClientHost(reqs[r].headers) = EMPTY

\* C14 as stated: a request whose extracted host is empty is treated as an
\* unconfigured host whatever the policy API answers for the empty name: it
\* is routed `fallback` to the default origin (or, at the least, refused as
\* not configured), never routed by a policy and never answered with an
\* error.
C14_AsStated ==
    \A r \in Reqs : EmptyHostSettled(r) =>
        \/ reqs[r].edgeRoute = "fallback" /\ reqs[r].ret = DEFAULT_ORIGIN
        \/ reqs[r].status = 404 /\ StoppedAtPreCheck(r)

\* What the code does with it: the empty name is looked up like any other,
\* and the API's answer decides.
C14_EmptyHostIsLookedUp ==
    \A r \in Reqs : EmptyHostSettled(r) =>
        /\ reqs[r].key = EMPTY
        /\ reqs[r].edgeRoute # "fallback"
        /\ reqs[r].fetched => reqs[r].answer.status # -1
        /\ (Resolved(r) /\ reqs[r].status # 500) =>
               reqs[r].edgeRoute \in {"white", "black", "loop-fallback", "no-target-fallback"}

\* A request without host headers was routed `black` to the policy's origin.
C14_Witness ==
    \E r \in Reqs :
        /\ EmptyHostSettled(r)
        /\ reqs[r].edgeRoute = "black" /\ reqs[r].ret = O_DECOY

(* ------------------------------------------------------------------ *)
(* Progress of a request (under SpecLive)                              *)
(* ------------------------------------------------------------------ *)

\* A request whose policy lookup is pending eventually gets past it
C15_LookupBounded ==
    \A r \in Reqs : (reqs[r].pc = "fetching") ~> (reqs[r].pc # "fetching")

\* A request forwarded to an origin is eventually answered
C15_ProxyBounded ==
    \A r \in Reqs : (reqs[r].pc = "sent") ~> (reqs[r].pc = "done")

C17_SingleEntry ==
    /\ \A i, j \in 1..Len(cache) : cache[i].key = cache[j].key => i = j
    /\ Len(cache) <= CacheMax

\* In this step r starts a resolution that finds no fresh entry: it calls
\* the API itself, also while another resolution of the same hostname is in
\* flight.
C17_MissFetches ==
    \A r \in Reqs :
        (/\ reqs[r].pc = "idle" /\ reqs'[r].pc # "idle" /\ reqs'[r].body # "echo"
         /\ ~(/\ hasEntry(cache, reqs'[r].key)
              /\ now - entryOf(cache, reqs'[r].key).start <= CACHE_TTL
              /\ truthy(entryOf(cache, reqs'[r].key).val))) =>
            /\ reqs'[r].pc = "fetching" /\ reqs'[r].fetched
            /\ reqs'[r].src = 0

\* In this step the lookup of r is answered 2xx with a body: the body
\* becomes the entry of r's key, whatever the cache held for it.
C17_SuccessWrites ==
    \A r \in Reqs :
        (/\ reqs[r].pc = "fetching" /\ reqs'[r].pc # "fetching"
         /\ reqs'[r].answer.status \in 200..299
         /\ reqs'[r].answer.body.kind # "malformed") =>
            /\ hasEntry(cache', reqs[r].key)
            /\ entryOf(cache', reqs[r].key).val = reqs'[r].answer.body
            /\ entryOf(cache', reqs[r].key).writer = r
            /\ entryOf(cache', reqs[r].key).start = now

\* C17: in-flight lookups are not deduplicated: every resolution that
\* misses issues its own API call, every one that succeeds writes the cache,
\* the entry of a hostname is the value of the resolution that completed
\* last, and the cache keeps a single entry per key.
C17_NoDedupeLastWriteWins ==
    /\ []C17_SingleEntry
    /\ [][C17_MissFetches /\ C17_SuccessWrites]_vars

\* Two resolutions of a.io missed at the same time, both called the API and
\* got different policies; the cache holds the one that completed last.
C17_Witness ==
    \E r1, r2 \in Reqs :
        /\ r1 # r2 /\ reqs[r1].key = H_A /\ reqs[r2].key = H_A
        /\ reqs[r1].t0 = reqs[r2].t0
        /\ reqs[r1].seen.writer = 0 /\ reqs[r2].seen.writer = 0
        /\ reqs[r1].fetched /\ reqs[r2].fetched
        /\ Resolved(r1) /\ Resolved(r2) /\ reqs[r1].edgeCfg # reqs[r2].edgeCfg
        /\ Len(cache) = 1 /\ cache[1].key = H_A
        /\ cache[1].writer = r2 /\ cache[1].val = reqs[r2].edgeCfg

(* ------------------------------------------------------------------ *)
(* Stability of a cached policy (under Spec)                           *)
(* ------------------------------------------------------------------ *)

\* e is an entry of the cache that holds a policy and has not expired
Live(e) == truthy(e.val) /\ now - e.start <= CACHE_TTL

\* In this step the lookup of r is answered and resolveHost stores the body
Stores(r) ==
    /\ reqs[r].pc = "fetching" /\ reqs'[r].pc # "fetching"
    /\ reqs'[r].answer.status \in 200..299
    /\ reqs'[r].answer.body.kind # "malformed"

\* A step leaves the value of every live entry that stays in the cache as
\* it is.
C18_NoOverwrite ==
    \A i \in 1..Len(cache) :
        (Live(cache[i]) /\ hasEntry(cache', cache[i].key)) =>
            entryOf(cache', cache[i].key).val = cache[i].val

\* C18 as stated: under any interleaving of requests, no operation replaces
\* the value of a live, unexpired entry by a different policy value.
C18_AsStated == [][C18_NoOverwrite]_vars

\* A live entry changes value only when a resolution of its hostname that
\* never saw it (it had missed before the entry was stored) completes and
\* stores its own answer.
C18_OnlyRacersOverwrite ==
    \A i \in 1..Len(cache) :
        (/\ Live(cache[i]) /\ hasEntry(cache', cache[i].key)
         /\ entryOf(cache', cache[i].key).val # cache[i].val) =>
            \E r \in Reqs :
                /\ Stores(r) /\ reqs[r].key = cache[i].key
                /\ [reqs[r].seen EXCEPT !.used = cache[i].used] # cache[i]
                /\ reqs[r].t0 <= cache[i].start
                /\ cache[i].writer # r
                /\ entryOf(cache', cache[i].key).writer = r

\* A live entry leaves the cache only when storing another hostname's
\* policy evicts it from the full cache.
C18_OnlyEvictionRemoves ==
    \A i \in 1..Len(cache) :
        (Live(cache[i]) /\ ~hasEntry(cache', cache[i].key)) =>
            /\ Len(cache) = CacheMax
            /\ \E r \in Reqs : Stores(r) /\ reqs[r].key # cache[i].key

\* A resolution that starts while the entry of its hostname is live leaves
\* the entry's value and age as they are.
C18_LookupKeeps ==
    \A r \in Reqs :
        (/\ reqs[r].pc = "idle" /\ reqs'[r].pc # "idle" /\ reqs'[r].body # "echo"
         /\ hasEntry(cache, reqs'[r].key) /\ Live(entryOf(cache, reqs'[r].key))) =>
            entryOf(cache', reqs'[r].key) = [entryOf(cache, reqs'[r].key) EXCEPT !.used = now]

\* C18, amended: the value cached for a hostname stays as it is until the
\* entry expires or is evicted, except that a resolution of that hostname
\* which was already in flight when the entry was stored overwrites it
\* with its own answer when it completes.
C18_StableUnlessRaced ==
    [][C18_OnlyRacersOverwrite /\ C18_OnlyEvictionRemoves /\ C18_LookupKeeps]_vars

\* The policy one resolution of a.io stored was replaced, within the same
\* tick, by the different policy of a resolution that had missed with it.
C18_Witness ==
    \E r1, r2 \in Reqs :
        /\ r1 # r2 /\ reqs[r1].key = H_A /\ reqs[r2].key = H_A
        /\ reqs[r1].t0 = now /\ reqs[r2].t0 = now
        /\ reqs[r1].answer.status = 200 /\ reqs[r1].edgeCfg = Policy(O_CDN, O_DECOY, EMPTY)
        /\ reqs[r2].answer.status = 200 /\ reqs[r2].edgeCfg = Policy(O_LOOP_A, EMPTY, EMPTY)
        /\ hasEntry(cache, H_A) /\ entryOf(cache, H_A).writer = r2
        /\ entryOf(cache, H_A).val = Policy(O_LOOP_A, EMPTY, EMPTY)

(* ------------------------------------------------------------------ *)
(* Client disconnects (under SpecCancel)                               *)
(* ------------------------------------------------------------------ *)

\* C19 as stated: once the client of a request has disconnected during the
\* lookup, the policy call is abandoned (its answer is never consumed and
\* never cached), nothing is forwarded and no response or response header
\* is written for the request.
C19_AsStated ==
    \A r \in Reqs : reqs[r].closed =>
        /\ reqs[r].answer = NoAnswer
        /\ \A i \in 1..Len(cache) : cache[i].writer # r
        /\ reqs[r].ret = EMPTY
        /\ reqs[r].status = 0 /\ reqs[r].resRoute = ""

\* The client disconnected during the lookup; the answer was cached all the
\* same, the request was forwarded, and the diagnostic headers were set on
\* its response.
C19_Witness ==
    \E r \in Reqs :
        /\ reqs[r].closed /\ reqs[r].pc = "done"
        /\ reqs[r].answer.status = 200
        /\ \E i \in 1..Len(cache) : cache[i].writer = r
        /\ reqs[r].ret # EMPTY /\ reqs[r].resRoute \in RouteLabels

(* ------------------------------------------------------------------ *)
(* Totality of the classification (under SpecRoute)                    *)
(* ------------------------------------------------------------------ *)

\* The proxy middleware has dealt with r: router ran to its end or threw
Decided(r) == reqs[r].pc \in {"sent", "done"}

\* C20 as stated: for every user agent and every policy, also one whose
\* block pattern is not a valid regular expression, the classification
\* yields white or black without throwing, so router finishes with one of
\* the five route labels and a target.
C20_AsStated ==
    \A r \in Reqs : (Decided(r) /\ truthy(reqs[r].edgeCfg)) =>
        /\ reqs[r].edgeRoute \in RouteLabels
        /\ reqs[r].ret # EMPTY /\ reqs[r].edgeTarget # EMPTY
        /\ reqs[r].status # 500

\* With a valid or absent block pattern the classification is total.
C20_TotalOnValidPatterns ==
    \A r \in Reqs :
        (Decided(r) /\ truthy(reqs[r].edgeCfg)
         /\ ~regExpThrows(blockPattern(reqs[r].edgeCfg))) =>
            /\ reqs[r].edgeRoute \in RouteLabels
            /\ reqs[r].ret # EMPTY /\ reqs[r].edgeTarget # EMPTY

\* A request whose policy carries the block pattern "(curl" left the router
\* without a label or a target and was answered 500.
C20_Witness ==
    \E r \in Reqs :
        /\ Decided(r) /\ reqs[r].edgeCfg.uaBlock = RE_INVALID
        /\ reqs[r].edgeRoute = "" /\ reqs[r].ret = EMPTY
        /\ reqs[r].status = 500

(* ------------------------------------------------------------------ *)
(* Loop prevention and the port (under SpecRoute)                      *)
(* ------------------------------------------------------------------ *)

\* The host the request of r arrived on, with its port: the header value
\* the extractor selects, lower-cased and trimmed
ArrivedOn(r) == trim(toLowerCase(Preferred(reqs[r].headers)))

\* The candidate origin of r parses as an http(s) URL
CandidateParses(r) == Routed(r) /\ HttpOrigin(Selected(r))

\* C21 as stated: a request that arrived on h:p (p not a default port) whose
\* candidate origin has host h:p is routed loop-fallback and not proxied to
\* the candidate; a candidate on host h with another port than the one the
\* request arrived on is not taken for the same host.
C21_AsStated ==
    \A r \in Reqs :
        (CandidateParses(r) /\ HasPortSuffix(ArrivedOn(r))) =>
            /\ (toLowerCase(urlHost(Selected(r))) = ArrivedOn(r)) =>
                   (reqs[r].edgeRoute = "loop-fallback" /\ reqs[r].ret # Selected(r))
            /\ (/\ urlHostname(Selected(r)) = stripPort(ArrivedOn(r))
                /\ toLowerCase(urlHost(Selected(r))) # ArrivedOn(r)) =>
                   reqs[r].edgeRoute # "loop-fallback"

\* What the code compares: the candidate's host, port included, with the
\* client host, whose port the extractor has removed.
C21_ComparesWithoutPort ==
    \A r \in Reqs : CandidateParses(r) =>
        (reqs[r].edgeRoute = "loop-fallback"
            <=> toLowerCase(urlHost(Selected(r))) = stripPort(ArrivedOn(r)))

\* A request that arrived on A.io:8080 was proxied to its candidate
\* http://a.io:8080, with Host a.io:8080.
C21_Witness ==
    \E r \in Reqs :
        /\ Forwarded(r) /\ reqs[r].headers.host = H_A_PORT
        /\ reqs[r].headers.xoh = EMPTY /\ reqs[r].headers.xfh = EMPTY
        /\ reqs[r].ret = O_A_PORT /\ reqs[r].edgeRoute \in {"white", "black"}
        /\ reqs[r].outHost = <<"a",".","i","o",":","8","0","8","0">>

(* ------------------------------------------------------------------ *)
(* Bound and eviction order of the cache (under SpecSequential)        *)
(* ------------------------------------------------------------------ *)

\* The cache never holds more entries than its max, one per hostname.
C22_Bounded ==
    /\ Len(cache) <= CacheMax
    /\ Cardinality({cache[i].key : i \in 1..Len(cache)}) = Len(cache)

\* In this step a resolution stores the policy of a hostname the cache has
\* no entry for.  The cache drops an entry only if it was full, it drops
\* exactly one, and no entry it keeps was used (looked up with a hit, or
\* stored) less recently than the one it drops.
C22_EvictsLeastRecent ==
    \A r \in Reqs :
        (Stores(r) /\ ~hasEntry(cache, reqs[r].key)) =>
            /\ hasEntry(cache', reqs[r].key)
            /\ Len(cache) < CacheMax =>
                   (Len(cache') = Len(cache) + 1 /\ dropped(cache, cache') = << >>)
            /\ Len(cache) = CacheMax =>
                   /\ Len(cache') = CacheMax
                   /\ Len(dropped(cache, cache')) = 1
                   /\ \A i \in 1..Len(cache) :
                        hasEntry(cache', cache[i].key) =>
                            cache[i].used >= dropped(cache, cache')[1].used

\* C22: the number of cached entries never exceeds the maximum, and an
\* insert into the full cache removes the least recently used entry.
C22_BoundedLru == []C22_Bounded /\ [][C22_EvictsLeastRecent]_vars

\* a.io and b.io were stored at tick 0 and a.io was looked up again at tick
\* 1; storing the policy of a third hostname then dropped b.io and kept
\* a.io.
C22_Witness ==
    \E r \in Reqs :
        /\ Len(reqs[r].evicted) = 1
        /\ reqs[r].evicted[1].key = H_B /\ reqs[r].evicted[1].used = 0
        /\ reqs[r].key = EMPTY
        /\ Len(cache) = CacheMax /\ cache[1].key = EMPTY
        /\ hasEntry(cache, H_A)
        /\ entryOf(cache, H_A).start = 0 /\ entryOf(cache, H_A).used = 1

(* ------------------------------------------------------------------ *)
(* Outcomes of a request (under SpecLive)                              *)
(* ------------------------------------------------------------------ *)

\* The four outcomes of a request that entered the pre-check
NotConfigured(r) ==
    reqs[r].status = 404 /\ reqs[r].body = "Domain not configured" /\ StoppedAtPreCheck(r)

ResolveError(r) ==
    reqs[r].status = 502 /\ reqs[r].body = "Edge resolve error" /\ StoppedAtPreCheck(r)

UpstreamError(r) ==
    reqs[r].status = 502 /\ reqs[r].body = "Edge upstream error" /\ Forwarded(r)

OriginResponse(r) == Relayed(r) /\ Forwarded(r) /\ reqs[r].status = 200

\* The number of the four outcomes r has had
Outcomes(r) ==
    Cardinality({k \in 1..4 :
        \/ k = 1 /\ NotConfigured(r)
        \/ k = 2 /\ ResolveError(r)
        \/ k = 3 /\ UpstreamError(r)
        \/ k = 4 /\ OriginResponse(r)})

\* A request handed to the router carries the policy and the client host
\* the pre-check attached, and has not been answered.
HandedOn(r) ==
    reqs[r].pc \in {"router", "sent"} =>
        /\ reqs[r].status = 0 /\ reqs[r].body = ""
        /\ truthy(reqs[r].edgeCfg)
        /\ reqs[r].edgeHost = getClientHost(reqs[r].headers)

\* An answered request has had exactly one of the four outcomes; a request
\* handed on has not been answered by the pre-check.
C23_OneOfFour ==
    \A r \in Reqs :
        /\ reqs[r].pc = "done" => Outcomes(r) = 1
        /\ reqs[r].pc # "done" => Outcomes(r) = 0
        /\ HandedOn(r)

\* Every request that entered the pre-check is answered in the end
C23_Ends ==
    \A r \in Reqs : (reqs[r].pc # "idle") ~> (reqs[r].pc = "done")

\* C23 as stated: every request entering the pre-check ends in exactly one
\* of the outcomes 404 not configured, 502 resolve error, 502 upstream error
\* or relayed origin response; the pre-check never both answers and hands
\* the request on, and policy and client host are attached before the
\* router reads them.
C23_AsStated == []C23_OneOfFour /\ C23_Ends

\* What holds of the code: an answered request has had one of the four
\* outcomes or the framework's 500 after router threw, never two of them.
C23_OneOfFive ==
    \A r \in Reqs :
        /\ reqs[r].pc = "done" =>
               IF reqs[r].status = 500
               THEN Outcomes(r) = 0 /\ isWhiteThrows(reqs[r].edgeCfg)
               ELSE Outcomes(r) = 1
        /\ reqs[r].pc # "done" => Outcomes(r) = 0
        /\ HandedOn(r)

\* A request passed the pre-check with a policy whose block pattern does
\* not compile and ended with the framework's 500: none of the four
\* outcomes.
C23_Witness ==
    \E r \in Reqs :
        /\ reqs[r].pc = "done" /\ reqs[r].answer.status = 200
        /\ reqs[r].edgeCfg.uaBlock = RE_INVALID
        /\ reqs[r].status = 500 /\ Outcomes(r) = 0

====
